---------------------------- MODULE Spec2Model ----------------------------
(***************************************************************************)
(* Model of the DICOM viewer: DicomManager::loadDicomImage and             *)
(* DicomManager::extractMetadata (src/DicomManager.cpp) and the open-file  *)
(* handler of src/main.cpp.                                                *)
(*                                                                         *)
(* Text is a sequence of one-character strings.  A file is a record of    *)
(* what the DICOM library reports about it; a path names one file and the  *)
(* file is never modified, so a path is identified with its file record.   *)
(***************************************************************************)
EXTENDS Integers, Sequences, FiniteSets, TLC

(***************************************************************************)
(* Bounds of the model.  MaxZoom: the zoom calls made on the view since its *)
(* transform was last set (the toolbar buttons up to MaxZoom calls, the    *)
(* shortcuts up to one fewer).  MaxDepth: the open actions nested in each  *)
(* other.                                                                   *)
(***************************************************************************)
MaxCols == 5
MaxRows == 2
MaxPix == 4
MaxVal == 2
MaxDateLen == 9
MaxZoom == 2
MaxDepth == 2

(***************************************************************************)
(* Generic helpers.                                                        *)
(***************************************************************************)
Range(s) == {s[i] : i \in 1..Len(s)}

Min2(a, b) == IF a <= b THEN a ELSE b

SeqsUpTo(S, n) == UNION {[1..k -> S] : k \in 1..n}

RECURSIVE SeqMin(_)
SeqMin(s) == IF Len(s) = 1 THEN s[1] ELSE Min2(s[1], SeqMin(Tail(s)))

RECURSIVE SeqMax(_)
SeqMax(s) == IF Len(s) = 1 THEN s[1]
             ELSE LET m == SeqMax(Tail(s)) IN IF s[1] >= m THEN s[1] ELSE m

(***************************************************************************)
(* Optional values of a data set: an element is present with a value or    *)
(* absent.                                                                 *)
(***************************************************************************)
Present(v) == [has |-> TRUE, val |-> v]
AbsentText == [has |-> FALSE, val |-> <<>>]
AbsentInt == [has |-> FALSE, val |-> 0]

(***************************************************************************)
(* Window presets as stored in the file (WindowCenter / WindowWidth).      *)
(***************************************************************************)
PresetWide == [center |-> 1, width |-> 2]
PresetHigh == [center |-> 5, width |-> 1]
PresetBad == [center |-> 1, width |-> 0]
PresetLists == {<<>>, <<PresetWide>>, <<PresetHigh, PresetWide>>,
                <<PresetBad>>, <<PresetBad, PresetWide>>}

(***************************************************************************)
(* Texts used as tag values.                                               *)
(***************************************************************************)
NA == <<"N", "/", "A">>
TxtName == <<"D", "O", "E">>
TxtId == <<"7">>
TxtMod == <<"C", "T">>
TxtInst == <<"H">>
Date2024 == <<"2", "0", "2", "4", "0", "3", "1", "5">>

(***************************************************************************)
(* A file: what DcmFileFormat::loadFile and DicomImage report about it.    *)
(***************************************************************************)
MkFile(headerOk, status, presets, cols, rows, pixels, renders, name, id, date, mod, inst) ==
    [headerOk |-> headerOk, status |-> status, photometric |-> "MONOCHROME2", presets |-> presets,
     cols |-> cols, rows |-> rows, pixels |-> pixels, renders |-> renders,
     patientName |-> name, patientID |-> id, studyDate |-> date,
     modality |-> mod, institution |-> inst]

ImageFile(presets, cols, rows, pixels, renders) ==
    MkFile(TRUE, "EIS_Normal", presets, Present(cols), Present(rows), pixels,
           renders, Present(TxtName), Present(TxtId), Present(Date2024),
           Present(TxtMod), Present(TxtInst))

BrokenFile(headerOk, status) ==
    MkFile(headerOk, status, <<>>, AbsentInt, AbsentInt, <<>>, FALSE,
           AbsentText, AbsentText, AbsentText, AbsentText, AbsentText)

\* the same file with PhotometricInterpretation p
WithPhotometric(f, p) == [f EXCEPT !.photometric = p]

Photometrics == {"MONOCHROME1", "MONOCHROME2"}

Gradient(n) == [i \in 1..n |-> (i - 1) % (MaxVal + 1)]

\* every shape up to MaxCols x MaxRows, with a fixed gradient as content
ShapeFiles ==
    {WithPhotometric(ImageFile(p, c, r, Gradient(c * r), ok), ph) :
        p \in PresetLists, c \in 1..MaxCols, r \in 1..MaxRows, ok \in BOOLEAN, ph \in Photometrics}

\* every content of up to MaxPix pixels over 0..MaxVal, in one row
ContentFiles ==
    {WithPhotometric(ImageFile(p, Len(px), 1, px, TRUE), ph) :
        p \in PresetLists, px \in SeqsUpTo(0..MaxVal, MaxPix), ph \in Photometrics}

BrokenFiles ==
    {BrokenFile(FALSE, "EIS_InvalidDocument"),
     BrokenFile(TRUE, "EIS_MissingAttribute"),
     BrokenFile(TRUE, "EIS_NotSupportedValue")}

DecodeFiles == ShapeFiles \cup ContentFiles \cup BrokenFiles

(***************************************************************************)
(* QImage values.  bits is the whole buffer, bpl bytes per scan line;      *)
(* a cell that was allocated and never written holds Uninit.  A QImage     *)
(* built over a foreign buffer (ext) owns no bits.                         *)
(***************************************************************************)
Uninit == -1

NullImage == [null |-> TRUE, width |-> 0, height |-> 0, bpl |-> 0,
              ext |-> FALSE, bits |-> <<>>]

Align4(w) == ((w + 3) \div 4) * 4

Pixel(q, x, y) == q.bits[y * q.bpl + x + 1]

PixelsOf(q) == {Pixel(q, x, y) : x \in 0..(q.width - 1), y \in 0..(q.height - 1)}

(***************************************************************************)
(* The DICOM image library as loadDicomImage uses it.                      *)
(*                                                                         *)
(* A window is kept as twice its center (c2) and its width (w), so that    *)
(* the min/max window, whose center is (min + max + 1) / 2, stays in the   *)
(* integers.  Voi is the linear VOI function of DICOM PS3.3 C.11.2.1.2     *)
(* with an output range of 0..255, truncating.  The output of a            *)
(* MONOCHROME1 image is inverted: its lowest values are the brightest.     *)
(***************************************************************************)
NoWindow == [set |-> FALSE, c2 |-> 0, w |-> 0]

NoImage == [alive |-> FALSE, status |-> "none", win |-> NoWindow, out |-> <<>>, deletes |-> 0]

NoFile == BrokenFile(FALSE, "none")

NewDicomImage(f) == [alive |-> TRUE, status |-> f.status, win |-> NoWindow, out |-> <<>>, deletes |-> 0]

DeleteImage(im) == [im EXCEPT !.alive = FALSE, !.out = <<>>, !.deletes = @ + 1]

SetWindowOk(f) == Len(f.presets) >= 1 /\ f.presets[1].width >= 1

PresetWindow(f) == [set |-> TRUE, c2 |-> 2 * f.presets[1].center, w |-> f.presets[1].width]

\* mutant of MinMaxWindow: the maximum taken for both ends of the window
MinMaxWindowDegenerate(px) == [set |-> TRUE, c2 |-> SeqMax(px) + SeqMax(px) + 1, w |-> 1]

MinMaxWindow(px) == [set |-> TRUE, c2 |-> SeqMin(px) + SeqMax(px) + 1, w |-> SeqMax(px) - SeqMin(px) + 1]

Voi(x, win) ==
    IF ~win.set THEN (x * 255) \div MaxVal
    ELSE IF 2 * x <= win.c2 - win.w THEN 0
    ELSE IF 2 * x > win.c2 + win.w - 2 THEN 255
    ELSE ((2 * x - win.c2 + win.w) * 255) \div (2 * (win.w - 1))

Render(px, win) == [i \in 1..Len(px) |-> Voi(px[i], win)]

\* mutant of GetWidth: rows taken for columns
GetWidthRows(f) == f.rows.val

GetWidth(f) == f.cols.val

GetHeight(f) == f.rows.val

Inverted(out) == [i \in 1..Len(out) |-> 255 - out[i]]

GetOutputData(f, im) ==
    IF ~f.renders THEN <<>>
    ELSE IF f.photometric = "MONOCHROME1" THEN Inverted(Render(f.pixels, im.win))
    ELSE Render(f.pixels, im.win)

\* QImage(uchar *data, int width, int height, int bytesPerLine, Format)
WrapImage(w, h, bytesPerLine) ==
    [null |-> FALSE, width |-> w, height |-> h, bpl |-> bytesPerLine, ext |-> TRUE, bits |-> <<>>]

\* a read of byte k of a buffer; outside the buffer the value is indeterminate
ReadByte(buf, k) == IF k \in 1..Len(buf) THEN buf[k] ELSE Uninit

\* mutant of QImageCopy: the last scan line is not copied
QImageCopyShort(q, buf) ==
    LET bplNew == Align4(q.width)
        n == Min2(q.bpl, bplNew)
    IN  [null |-> FALSE, width |-> q.width, height |-> q.height, bpl |-> bplNew, ext |-> FALSE,
         bits |-> [k \in 1..(bplNew * q.height) |->
                     LET y == (k - 1) \div bplNew
                         x == (k - 1) % bplNew
                     IN  IF x < n /\ y < q.height - 1 THEN ReadByte(buf, y * q.bpl + x + 1) ELSE Uninit]]

\* QImage::copy(): a new image with 32-bit aligned scan lines, filled line by
\* line with min(source stride, own stride) bytes of each source line.
QImageCopy(q, buf) ==
    LET bplNew == Align4(q.width)
        n == Min2(q.bpl, bplNew)
    IN  [null |-> FALSE, width |-> q.width, height |-> q.height, bpl |-> bplNew, ext |-> FALSE,
         bits |-> [k \in 1..(bplNew * q.height) |->
                     LET y == (k - 1) \div bplNew
                         x == (k - 1) % bplNew
                     IN  IF x < n THEN ReadByte(buf, y * q.bpl + x + 1) ELSE Uninit]]

(***************************************************************************)
(* QString as extractMetadata uses it.                                     *)
(***************************************************************************)
DigitChars == <<"0", "1", "2", "3", "4", "5", "6", "7", "8", "9">>

RECURSIVE Digits(_)
Digits(n) == IF n < 10 THEN <<DigitChars[n + 1]>> ELSE Digits(n \div 10) \o <<DigitChars[(n % 10) + 1]>>

\* the decimal text QString::arg(long) inserts
ToDecimal(n) == IF n < 0 THEN <<"-">> \o Digits(0 - n) ELSE Digits(n)

\* QString::mid(position, n)
Mid(s, pos, n) == SubSeq(s, pos + 1, Min2(pos + n, Len(s)))

\* QString::left(n)
Left(s, n) == SubSeq(s, 1, Min2(n, Len(s)))

\* place markers %1..%9 of QString::arg
MarkerAt(s, i) == i < Len(s) /\ s[i] = "%" /\ s[i + 1] \in {DigitChars[d + 1] : d \in 1..9}

MarkerNum(s, i) == CHOOSE d \in 1..9 : DigitChars[d + 1] = s[i + 1]

HasMarker(s) == \E i \in 1..Len(s) : MarkerAt(s, i)

LowestMarker(s) ==
    CHOOSE d \in 1..9 :
        /\ \E i \in 1..Len(s) : MarkerAt(s, i) /\ MarkerNum(s, i) = d
        /\ \A i \in 1..Len(s) : MarkerAt(s, i) => MarkerNum(s, i) >= d

RECURSIVE Substitute(_, _, _, _)
Substitute(s, i, d, a) ==
    IF i > Len(s) THEN <<>>
    ELSE IF MarkerAt(s, i) /\ MarkerNum(s, i) = d THEN a \o Substitute(s, i + 2, d, a)
    ELSE <<s[i]>> \o Substitute(s, i + 1, d, a)

\* QString::arg(text): every occurrence of the lowest-numbered place marker
\* is replaced; a string without markers is returned unchanged (v is the
\* value of the string s, taken once)
Arg(s, a) == CHOOSE r \in {IF HasMarker(v) THEN Substitute(v, 1, LowestMarker(v), a) ELSE v : v \in {s}} : TRUE

\* QString::fromLatin1(const char *): the bytes up to the terminating NUL,
\* each byte the character of the same code
Nul == "NUL"

RECURSIVE FromLatin1(_)
FromLatin1(bytes) ==
    IF bytes = <<>> \/ Head(bytes) = Nul THEN <<>>
    ELSE <<Head(bytes)>> \o FromLatin1(Tail(bytes))

\* mutant of getTag: no substitute for an absent tag
getTagNoDefault(e) == IF e.has THEN FromLatin1(e.val) ELSE <<>>

\* the lambda getTag, on the element of the data set the tag names
getTag(e) == IF e.has THEN FromLatin1(e.val) ELSE NA

\* mutant of ReformatDate: month before day
ReformatDateMonthFirst(d) ==
    IF Len(d) = 8 THEN Mid(d, 4, 2) \o <<"/">> \o Mid(d, 6, 2) \o <<"/">> \o Left(d, 4) ELSE d

ReformatDate(d) ==
    IF Len(d) = 8 THEN Mid(d, 6, 2) \o <<"/">> \o Mid(d, 4, 2) \o <<"/">> \o Left(d, 4) ELSE d

DimensionsTemplate == <<"%", "1", " ", "x", " ", "%", "2", " ", "p", "x">>

\* mutant of FormatDimensions: rows before columns
FormatDimensionsRowsFirst(cols, rows) == Arg(Arg(DimensionsTemplate, ToDecimal(rows)), ToDecimal(cols))

FormatDimensions(cols, rows) == Arg(Arg(DimensionsTemplate, ToDecimal(cols)), ToDecimal(rows))

\* findAndGetLongInt into a variable initialised to 0
FindLongInt(e) == IF e.has THEN e.val ELSE 0

DefaultMetadata ==
    [patientName |-> <<>>, patientID |-> <<>>, studyDate |-> <<>>, modality |-> <<>>,
     institution |-> <<>>, dimensions |-> <<>>, isValid |-> FALSE]

(***************************************************************************)
(* Files for extractMetadata.                                              *)
(***************************************************************************)
MetaFile(headerOk, name, id, date, mod, inst, cols, rows) ==
    MkFile(headerOk, IF headerOk THEN "EIS_Normal" ELSE "EIS_InvalidDocument", <<>>, cols, rows, <<1>>, headerOk, name, id, date, mod, inst)

Opt(v) == {AbsentText, Present(v)}

\* every combination of present and absent text tags, header readable or not
TagFiles ==
    {MetaFile(ok, n, i, d, m, t, Present(512), Present(512)) :
        ok \in BOOLEAN, n \in Opt(TxtName), i \in Opt(TxtId), d \in Opt(Date2024),
        m \in Opt(TxtMod), t \in Opt(TxtInst)}


DateTexts ==
    SeqsUpTo({"1", "2"}, MaxDateLen)
        \cup {Date2024,
              <<"2", "0", "2", "4", ".", "0", "3", ".", "1", "5">>,
              <<"2", "0", "2", "4", "0", "3", "1", "5", Nul, "9">>}

DateFiles ==
    {MetaFile(TRUE, Present(TxtName), Present(TxtId), Present(d), Present(TxtMod), Present(TxtInst), Present(512), Present(512)) :
        d \in DateTexts}

DimValues == {Present(0), Present(1), Present(7), Present(12), Present(512), Present(65535), Present(0 - 3), AbsentInt}

DimFiles ==
    {MetaFile(TRUE, Present(TxtName), Present(TxtId), Present(Date2024), Present(TxtMod), Present(TxtInst), c, r) :
        c \in DimValues, r \in DimValues}

MetaFiles == TagFiles \cup DateFiles \cup DimFiles

(***************************************************************************)
(* State.                                                                  *)
(***************************************************************************)
VARIABLES
    dpc,         \* loadDicomImage: position ("idle" when not running)
    dpath,       \* loadDicomImage: the file its path names
    image,       \* the DicomImage object created by the call
    width,       \* local width
    height,      \* local height
    pixelData,   \* local pixelData: "null", or "outbuf" (the image's output buffer)
    result,      \* local result: the QImage over pixelData
    finalImage,  \* local finalImage
    dret,        \* value returned by the last loadDicomImage
    dlog,        \* library calls made by the running loadDicomImage, in order
    mpc,         \* extractMetadata: position ("idle" when not running)
    mpath,       \* extractMetadata: the file its path names
    data,        \* local data
    tempVal,     \* local tempVal: the last value findAndGetOFString stored
    mret,        \* value returned by the last extractMetadata
    apc,         \* openDicomAction: position ("idle" when no handler runs)
    path,        \* local path: the file chosen in the dialog
    img,         \* local img
    meta,        \* local meta
    alog,        \* what the running (or last) openDicomAction did, in order
    page,        \* stackedWidget's current index: 0 welcome, 1 viewer
    scene,       \* the items of the scene
    lblTopLeft,  \* text of the overlay labels
    lblTopRight,
    lblBottomRight,
    overrideCursor,  \* depth of the application's override cursor stack
    progress,    \* the progress dialog of the running action: "none", "shown", "closed"
    alert,       \* the error message box is open
    frames,      \* the open actions suspended in processEvents, innermost first
    mainpc,      \* main: position ("exec" while the event loop runs)
    codecs,      \* the registration state of the three decoders
    btnToggleInfo,  \* the metadata toggle button: checked state and caption
    lblVisible,  \* the visibility flag of each overlay label
    viewScale,   \* the scale of the view's transform, a fraction n/d
    shownPath,   \* the file of the last open action that displayed an image
    seenImg,     \* first result of loadDicomImage per file, in a run of direct calls
    seenMeta,    \* first result of extractMetadata per file, in a run of direct calls
    trail        \* the view scales since the transform was last set, each with the call that made it

dvars == <<dpc, dpath, image, width, height, pixelData, result, finalImage, dret, dlog>>

mvars == <<mpc, mpath, data, tempVal, mret>>

xvars == <<mainpc, codecs, btnToggleInfo, lblVisible, viewScale, shownPath>>

avars == <<apc, path, img, meta, alog, page, scene, lblTopLeft, lblTopRight, lblBottomRight, overrideCursor, progress, alert, frames, xvars>>

gvars == <<seenImg, seenMeta, trail>>

vars == <<dvars, mvars, avars, gvars>>

(***************************************************************************)
(* DicomManager::loadDicomImage, statement by statement.                   *)
(***************************************************************************)
DecodeIdle ==
    /\ dpc = "idle"
    /\ dpath = NoFile
    /\ image = NoImage
    /\ width = 0
    /\ height = 0
    /\ pixelData = "null"
    /\ result = NullImage
    /\ finalImage = NullImage
    /\ dret = NullImage
    /\ dlog = <<>>

\* entry: fresh locals for path f
DecodeEnter(f) ==
    /\ dpc' = "new"
    /\ dpath' = f
    /\ image' = NoImage
    /\ width' = 0
    /\ height' = 0
    /\ pixelData' = "null"
    /\ result' = NullImage
    /\ finalImage' = NullImage
    /\ dlog' = <<>>
    /\ UNCHANGED dret

LoadNew ==
    /\ dpc = "new"
    /\ image' = NewDicomImage(dpath)
    /\ dlog' = Append(dlog, "new")
    /\ dpc' = "check"
    /\ UNCHANGED <<dpath, width, height, pixelData, result, finalImage, dret>>
    /\ UNCHANGED <<mvars, avars, gvars>>

LoadCheck ==
    /\ dpc = "check"
    /\ IF image.status # "EIS_Normal"
       THEN /\ image' = DeleteImage(image)
            /\ dlog' = Append(Append(dlog, "getStatus"), "delete")
            /\ dret' = NullImage
            /\ dpc' = "done"
       ELSE /\ dlog' = Append(dlog, "getStatus")
            /\ dpc' = "window"
            /\ UNCHANGED <<image, dret>>
    /\ UNCHANGED <<dpath, width, height, pixelData, result, finalImage>>
    /\ UNCHANGED <<mvars, avars, gvars>>

\* mutant of LoadSetWindow: the test of setWindow(0) not negated
LoadSetWindowInverted ==
    /\ dpc = "window"
    /\ IF SetWindowOk(dpath)
       THEN /\ image' = [image EXCEPT !.win = PresetWindow(dpath)]
            /\ dlog' = Append(dlog, "setWindow:ok")
            /\ dpc' = "minmax"
       ELSE /\ dlog' = Append(dlog, "setWindow:fail")
            /\ dpc' = "dims"
            /\ UNCHANGED image
    /\ UNCHANGED <<dpath, width, height, pixelData, result, finalImage, dret>>
    /\ UNCHANGED <<mvars, avars, gvars>>

LoadSetWindow ==
    /\ dpc = "window"
    /\ IF SetWindowOk(dpath)
       THEN /\ image' = [image EXCEPT !.win = PresetWindow(dpath)]
            /\ dlog' = Append(dlog, "setWindow:ok")
            /\ dpc' = "dims"
       ELSE /\ dlog' = Append(dlog, "setWindow:fail")
            /\ dpc' = "minmax"
            /\ UNCHANGED image
    /\ UNCHANGED <<dpath, width, height, pixelData, result, finalImage, dret>>
    /\ UNCHANGED <<mvars, avars, gvars>>

LoadMinMax ==
    /\ dpc = "minmax"
    /\ image' = [image EXCEPT !.win = MinMaxWindow(dpath.pixels)]
    /\ dlog' = Append(dlog, "setMinMaxWindow")
    /\ dpc' = "dims"
    /\ UNCHANGED <<dpath, width, height, pixelData, result, finalImage, dret>>
    /\ UNCHANGED <<mvars, avars, gvars>>

LoadDims ==
    /\ dpc = "dims"
    /\ width' = GetWidth(dpath)
    /\ height' = GetHeight(dpath)
    /\ dlog' = Append(Append(dlog, "getWidth"), "getHeight")
    /\ dpc' = "output"
    /\ UNCHANGED <<dpath, image, pixelData, result, finalImage, dret>>
    /\ UNCHANGED <<mvars, avars, gvars>>

LoadOutput ==
    /\ dpc = "output"
    /\ image' = [image EXCEPT !.out = GetOutputData(dpath, image)]
    /\ pixelData' = IF dpath.renders THEN "outbuf" ELSE "null"
    /\ dlog' = Append(dlog, "getOutputData")
    /\ dpc' = "branch"
    /\ UNCHANGED <<dpath, width, height, result, finalImage, dret>>
    /\ UNCHANGED <<mvars, avars, gvars>>

LoadWrap ==
    /\ dpc = "branch"
    /\ IF pixelData # "null"
       THEN /\ result' = WrapImage(width, height, width)
            /\ dpc' = "copy"
       ELSE /\ dpc' = "cleanup"
            /\ UNCHANGED result
    /\ UNCHANGED <<dpath, image, width, height, pixelData, finalImage, dret, dlog>>
    /\ UNCHANGED <<mvars, avars, gvars>>

\* mutant of LoadCopy: the wrapping image itself is kept, without a copy
LoadCopyShallow ==
    /\ dpc = "copy"
    /\ finalImage' = result
    /\ dlog' = Append(dlog, "copy")
    /\ dpc' = "delete"
    /\ UNCHANGED <<dpath, image, width, height, pixelData, result, dret>>
    /\ UNCHANGED <<mvars, avars, gvars>>

LoadCopy ==
    /\ dpc = "copy"
    /\ finalImage' = QImageCopy(result, image.out)
    /\ dlog' = Append(dlog, "copy")
    /\ dpc' = "delete"
    /\ UNCHANGED <<dpath, image, width, height, pixelData, result, dret>>
    /\ UNCHANGED <<mvars, avars, gvars>>

LoadDelete ==
    /\ dpc = "delete"
    /\ image' = DeleteImage(image)
    /\ dlog' = Append(dlog, "delete")
    /\ dpc' = "return"
    /\ UNCHANGED <<dpath, width, height, pixelData, result, finalImage, dret>>
    /\ UNCHANGED <<mvars, avars, gvars>>

LoadReturn ==
    /\ dpc = "return"
    /\ dret' = finalImage
    /\ dpc' = "done"
    /\ UNCHANGED <<dpath, image, width, height, pixelData, result, finalImage, dlog>>
    /\ UNCHANGED <<mvars, avars, gvars>>

\* mutant of LoadCleanup: the image object is not deleted
LoadCleanupLeaks ==
    /\ dpc = "cleanup"
    /\ dret' = NullImage
    /\ dpc' = "done"
    /\ UNCHANGED <<dpath, image, width, height, pixelData, result, finalImage, dlog>>
    /\ UNCHANGED <<mvars, avars, gvars>>

LoadCleanup ==
    /\ dpc = "cleanup"
    /\ image' = DeleteImage(image)
    /\ dlog' = Append(dlog, "delete")
    /\ dret' = NullImage
    /\ dpc' = "done"
    /\ UNCHANGED <<dpath, width, height, pixelData, result, finalImage>>
    /\ UNCHANGED <<mvars, avars, gvars>>

loadDicomImage ==
    \/ LoadNew
    \/ LoadCheck
    \/ LoadSetWindow
    \/ LoadMinMax
    \/ LoadDims
    \/ LoadOutput
    \/ LoadWrap
    \/ LoadCopy
    \/ LoadDelete
    \/ LoadReturn
    \/ LoadCleanup

(***************************************************************************)
(* DicomManager::extractMetadata, statement by statement.                  *)
(***************************************************************************)
MetaIdle ==
    /\ mpc = "idle"
    /\ mpath = NoFile
    /\ data = DefaultMetadata
    /\ tempVal = <<>>
    /\ mret = DefaultMetadata

\* entry: fresh locals for path f
MetaEnter(f) ==
    /\ mpc' = "load"
    /\ mpath' = f
    /\ data' = DefaultMetadata
    /\ tempVal' = <<>>
    /\ UNCHANGED mret

\* the value tempVal holds after the five getTag calls
LastRead(f) ==
    IF f.institution.has THEN f.institution.val
    ELSE IF f.modality.has THEN f.modality.val
    ELSE IF f.studyDate.has THEN f.studyDate.val
    ELSE IF f.patientID.has THEN f.patientID.val
    ELSE IF f.patientName.has THEN f.patientName.val
    ELSE <<>>

\* mutant of MetaLoad: data keeps the value of the previous call (a static local)
MetaLoadStatic ==
    /\ mpc = "load"
    /\ data' = mret
    /\ mpc' = IF mpath.headerOk THEN "tags" ELSE "fail"
    /\ UNCHANGED <<mpath, tempVal, mret>>
    /\ UNCHANGED <<dvars, avars, gvars>>

\* mutant of MetaLoad: the result of loadFile not tested
MetaLoadUnchecked ==
    /\ mpc = "load"
    /\ data' = DefaultMetadata
    /\ mpc' = "tags"
    /\ UNCHANGED <<mpath, tempVal, mret>>
    /\ UNCHANGED <<dvars, avars, gvars>>

MetaLoad ==
    /\ mpc = "load"
    /\ data' = DefaultMetadata
    /\ mpc' = IF mpath.headerOk THEN "tags" ELSE "fail"
    /\ UNCHANGED <<mpath, tempVal, mret>>
    /\ UNCHANGED <<dvars, avars, gvars>>

MetaTags ==
    /\ mpc = "tags"
    /\ data' = [data EXCEPT !.patientName = getTag(mpath.patientName),
                            !.patientID = getTag(mpath.patientID),
                            !.studyDate = getTag(mpath.studyDate),
                            !.modality = getTag(mpath.modality),
                            !.institution = getTag(mpath.institution)]
    /\ tempVal' = LastRead(mpath)
    /\ mpc' = "date"
    /\ UNCHANGED <<mpath, mret>>
    /\ UNCHANGED <<dvars, avars, gvars>>

MetaDate ==
    /\ mpc = "date"
    /\ data' = [data EXCEPT !.studyDate = ReformatDate(data.studyDate)]
    /\ mpc' = "dims"
    /\ UNCHANGED <<mpath, tempVal, mret>>
    /\ UNCHANGED <<dvars, avars, gvars>>

MetaDims ==
    /\ mpc = "dims"
    /\ data' = [data EXCEPT !.dimensions = FormatDimensions(FindLongInt(mpath.cols), FindLongInt(mpath.rows))]
    /\ mpc' = "valid"
    /\ UNCHANGED <<mpath, tempVal, mret>>
    /\ UNCHANGED <<dvars, avars, gvars>>

MetaValid ==
    /\ mpc = "valid"
    /\ data' = [data EXCEPT !.isValid = TRUE]
    /\ mpc' = "return"
    /\ UNCHANGED <<mpath, tempVal, mret>>
    /\ UNCHANGED <<dvars, avars, gvars>>

MetaFail ==
    /\ mpc = "fail"
    /\ data' = [data EXCEPT !.isValid = FALSE]
    /\ mpc' = "return"
    /\ UNCHANGED <<mpath, tempVal, mret>>
    /\ UNCHANGED <<dvars, avars, gvars>>

MetaReturn ==
    /\ mpc = "return"
    /\ mret' = data
    /\ mpc' = "done"
    /\ UNCHANGED <<mpath, data, tempVal>>
    /\ UNCHANGED <<dvars, avars, gvars>>

extractMetadata ==
    \/ MetaLoad
    \/ MetaTags
    \/ MetaDate
    \/ MetaDims
    \/ MetaValid
    \/ MetaFail
    \/ MetaReturn

(***************************************************************************)
(* The main window (src/main.cpp): the files the dialog offers, the        *)
(* open-file handler statement by statement, and the back button.          *)
(***************************************************************************)
TxtName2 == <<"R", "O", "E">>

\* a readable image with every tag
FileA == MkFile(TRUE, "EIS_Normal", <<PresetWide>>, Present(2), Present(1), <<0, 2>>, TRUE, Present(TxtName), Present(TxtId), Present(Date2024), Present(TxtMod), Present(TxtInst))

\* a readable image without presets and with tags missing
FileB == MkFile(TRUE, "EIS_Normal", <<>>, Present(1), Present(2), <<1, 2>>, TRUE, Present(TxtName2), AbsentText, AbsentText, Present(TxtMod), AbsentText)

\* a readable header whose image cannot be decoded
FileC == MkFile(TRUE, "EIS_NotSupportedValue", <<>>, Present(3), Present(1), <<>>, FALSE, Present(TxtName), Present(TxtId), Present(Date2024), Present(TxtMod), Present(TxtInst))

\* not a DICOM file
FileD == MkFile(FALSE, "EIS_InvalidDocument", <<>>, AbsentInt, AbsentInt, <<>>, FALSE, Present(TxtName2), Present(TxtId), AbsentText, AbsentText, AbsentText)

\* a readable image object whose 8-bit output cannot be rendered
FileE == MkFile(TRUE, "EIS_Normal", <<PresetWide>>, Present(2), Present(2), <<0, 1, 2, 0>>, FALSE, Present(TxtName), Present(TxtId), Present(Date2024), AbsentText, Present(TxtInst))

\* an image that decodes from a file whose header can no longer be loaded when
\* extractMetadata reads it again (the file was removed, replaced or became
\* unreadable between the two reads)
FileF == MkFile(FALSE, "EIS_Normal", <<>>, Present(2), Present(1), <<2, 0>>, TRUE, Present(TxtName2), Present(TxtId), Present(Date2024), Present(TxtMod), Present(TxtInst))

AppFiles == {FileA, FileB, FileC, FileD, FileE, FileF}

TopLeftTemplate ==
    <<"N", "O", "M", "E", ":", " ", "%", "1", "\n", "I", "D", ":", " ", "%", "2", "\n",
      "M", "O", "D", ":", " ", "%", "3">>

TopRightTemplate == <<"%", "1", "\n", "D", "A", "T", "A", ":", " ", "%", "2">>

BottomRightTemplate == <<"D", "I", "M", ":", " ", "%", "1">>

\* "METADADOS INDISPONIVEIS" (the accent of the source text left out)
UnavailableText ==
    <<"M", "E", "T", "A", "D", "A", "D", "O", "S", " ",
      "I", "N", "D", "I", "S", "P", "O", "N", "I", "V", "E", "I", "S">>

TopLeftText(m) == Arg(Arg(Arg(TopLeftTemplate, m.patientName), m.patientID), m.modality)

TopRightText(m) == Arg(Arg(TopRightTemplate, m.institution), m.studyDate)

BottomRightText(m) == Arg(BottomRightTemplate, m.dimensions)

\* the pixmap item of an image, its offset kept doubled: (-width/2, -height/2)
PixmapItem(q) == [pixmap |-> q, offX2 |-> 0 - q.width, offY2 |-> 0 - q.height]

(***************************************************************************)
(* The decoder registrations (DJDecoderRegistration, DJLSDecoderRegistration,*)
(* DcmRLEDecoderRegistration): registerCodecs registers unless already      *)
(* registered, cleanup deregisters if registered.                           *)
(***************************************************************************)
Codecs == {"DJDecoder", "DJLSDecoder", "DcmRLEDecoder"}

NoCodec == [registered |-> FALSE, registers |-> 0, cleanups |-> 0]

registerCodecs(c) == [c EXCEPT !.registered = TRUE, !.registers = @ + 1]

cleanup(c) == [c EXCEPT !.registered = FALSE, !.cleanups = @ + 1]

(***************************************************************************)
(* The toggle button, the overlay labels and the view.                      *)
(***************************************************************************)
CaptionOn == "Mostrar Metadados (On)"

CaptionOff == "Mostrar Metadados (Off)"

Labels == {"lblTopLeft", "lblTopRight", "lblBottomRight"}

\* qreal is double: a positive double is the 53-bit mantissa m, held as four
\* limbs of 14 bits with the lowest first, times 2^e.  The literals of main,
\* 1.25, 0.8, 1.20 and 0.95, as the compiler rounds them (0x1.4p+0,
\* 0x1.999999999999Ap-1, 0x1.3333333333333p+0, 0x1.E666666666666p-1):
Dbl1 == [m |-> <<0, 0, 0, 1024>>, e |-> -52]

Dbl1_25 == [m |-> <<0, 0, 0, 1280>>, e |-> -52]

Dbl0_8 == [m |-> <<6554, 9830, 6553, 1638>>, e |-> -53]

Dbl1_20 == [m |-> <<13107, 3276, 13107, 1228>>, e |-> -52]

Dbl0_95 == [m |-> <<9830, 6553, 9830, 1945>>, e |-> -53]

\* the double after x: one added to the mantissa, and a mantissa that reaches
\* 2^53 is 2^52 with the exponent one higher
Up(x) ==
    LET RECURSIVE Inc(_, _)
        Inc(m, i) ==
            IF i = 4 \/ m[i] + 1 < 2^14 THEN [m EXCEPT ![i] = @ + 1]
            ELSE Inc([m EXCEPT ![i] = 0], i + 1)
        n == Inc(x.m, 1)
    IN  IF n[4] = 2^11 THEN [m |-> <<0, 0, 0, 2^10>>, e |-> x.e + 1]
        ELSE [m |-> n, e |-> x.e]

\* the product of two doubles, rounded to the nearest double, ties to even:
\* P is the exact product of the mantissas (eight limbs, 105 or 106 bits), q
\* its leading 53 bits, hi and low the bits dropped
Times(x, y) ==
    LET Term(i, k) == IF k + 1 - i \in 1..4 THEN x.m[i] * y.m[k + 1 - i] ELSE 0
        cols == [k \in 1..8 |-> Term(1, k) + Term(2, k) + Term(3, k) + Term(4, k)]
        RECURSIVE Carry(_, _)
        Carry(k, c) ==
            IF k > 8 THEN <<>>
            ELSE <<(cols[k] + c) % 2^14>> \o Carry(k + 1, (cols[k] + c) \div 2^14)
        P == Carry(1, 0)
        r == IF P[8] >= 2^7 THEN 11 ELSE 10
        q == [i \in 1..4 |-> (P[i + 3] \div 2^r) + (IF i < 4 THEN P[i + 4] % 2^r ELSE P[8]) * 2^(14 - r)]
        hi == P[4] % 2^r
        low == P[1] # 0 \/ P[2] # 0 \/ P[3] # 0
        half == 2^(r - 1)
        up == \/ hi > half
              \/ hi = half /\ low
              \/ hi = half /\ ~low /\ q[1] % 2 = 1
        down == [m |-> q, e |-> x.e + y.e + 42 + r]
    IN  IF up THEN Up(down) ELSE down

\* the scale of the view: the double val, times the ratio that fits the item
\* into the viewport when base is "fit" (the ratio is taken to be a power of
\* two, which leaves the rounding of every product to val)
Scale(base, val) == [base |-> base, val |-> val]

IdentityScale == Scale("identity", Dbl1)

\* QGraphicsView::scale(f, f): m11 and m22 are multiplied by f
Scaled(v, f) == Scale(v.base, Times(v.val, f))

\* QGraphicsView::fitInView: nothing for a null rectangle, else the transform
\* is reset to the one that fits the rectangle
FitInView(v, items) == IF items = <<>> THEN v ELSE Scale("fit", Dbl1)

AppInit ==
    /\ apc = "idle"
    /\ path = NoFile
    /\ img = NullImage
    /\ meta = DefaultMetadata
    /\ alog = <<>>
    /\ page = 0
    /\ scene = <<>>
    /\ lblTopLeft = <<>>
    /\ lblTopRight = <<>>
    /\ lblBottomRight = <<>>
    /\ overrideCursor = 0
    /\ progress = "none"
    /\ alert = FALSE
    /\ frames = <<>>
    /\ btnToggleInfo = [checked |-> TRUE, text |-> CaptionOn]
    /\ lblVisible = [l \in Labels |-> TRUE]
    /\ viewScale = IdentityScale
    /\ shownPath = NoFile

\* main at its first statement: no decoder registered yet
MainInit ==
    /\ mainpc = "regJpeg"
    /\ codecs = [c \in Codecs |-> NoCodec]

\* the registration state while the event loop runs
MainRunning ==
    /\ mainpc = "exec"
    /\ codecs = [c \in Codecs |-> registerCodecs(NoCodec)]

GhostInit ==
    /\ seenImg = <<>>
    /\ seenMeta = <<>>
    /\ trail = <<[op |-> "identity", v |-> IdentityScale]>>

appvars == <<apc, path, img, meta, alog, page, scene, lblTopLeft, lblTopRight, lblBottomRight, overrideCursor, progress, alert, frames>>

\* a handler can start: the event loop runs, or the open action is inside
\* processEvents and its window-modal progress dialog, which blocks the
\* window's input, is not shown
Dispatch ==
    /\ mainpc = "exec"
    /\ \/ apc = "idle"
       \/ apc = "pump" /\ progress # "shown"

\* the open action returns with log as its record: its locals die, and the
\* action it suspended, if any, goes on inside processEvents
Returns(log) ==
    /\ img' = NullImage
    /\ meta' = DefaultMetadata
    /\ IF frames = <<>>
       THEN /\ apc' = "idle"
            /\ path' = NoFile
            /\ alog' = log
            /\ UNCHANGED <<progress, frames>>
       ELSE /\ apc' = "pump"
            /\ path' = Head(frames).path
            /\ alog' = Head(frames).alog
            /\ progress' = Head(frames).progress
            /\ frames' = Tail(frames)

\* mutant of OpenCancel: the empty path is not tested and the busy indicator
\* is set up before the handler returns
OpenCancelBusy ==
    /\ mainpc = "exec"
    /\ apc = "idle"
    /\ alog' = <<"getOpenFileName">>
    /\ overrideCursor' = overrideCursor + 1
    /\ progress' = "shown"
    /\ UNCHANGED <<apc, path, img, meta, page, scene, lblTopLeft, lblTopRight, lblBottomRight, alert>>
    /\ UNCHANGED <<dvars, mvars, gvars>>
    /\ UNCHANGED <<xvars, frames>>

\* getOpenFileName returned an empty path
OpenCancel ==
    /\ Dispatch
    /\ alog' = IF apc = "idle" THEN <<"getOpenFileName">> ELSE alog
    /\ UNCHANGED <<apc, path, img, meta, page, scene, lblTopLeft, lblTopRight, lblBottomRight, overrideCursor, progress, alert>>
    /\ UNCHANGED <<dvars, mvars, gvars>>
    /\ UNCHANGED <<xvars, frames>>

\* getOpenFileName returned the path of f; an action started from inside
\* processEvents suspends the one that is processing events
OpenChoose(f) ==
    /\ Dispatch
    /\ apc = "idle" \/ Len(frames) < MaxDepth - 1
    /\ frames' = IF apc = "idle" THEN frames
                  ELSE <<[path |-> path, alog |-> alog, progress |-> progress]>> \o frames
    /\ path' = f
    /\ alog' = <<"getOpenFileName">>
    /\ progress' = "none"
    /\ apc' = "busy"
    /\ UNCHANGED <<img, meta, page, scene, lblTopLeft, lblTopRight, lblBottomRight, overrideCursor, alert>>
    /\ UNCHANGED <<dvars, mvars, gvars>>
    /\ UNCHANGED xvars

\* mutant of OpenBusy: the indicator is shown and no event is processed
OpenBusyNoPump ==
    /\ apc = "busy"
    /\ overrideCursor' = overrideCursor + 1
    /\ progress' = "shown"
    /\ alog' = alog \o <<"setOverrideCursor", "progress.show">>
    /\ apc' = "load"
    /\ UNCHANGED <<path, img, meta, page, scene, lblTopLeft, lblTopRight, lblBottomRight, alert>>
    /\ UNCHANGED <<dvars, mvars, gvars>>
    /\ UNCHANGED <<xvars, frames>>

\* mutant of OpenBusy: the events are processed while the progress dialog is
\* not yet shown
OpenBusyPumpsFirst ==
    /\ apc = "busy"
    /\ overrideCursor' = overrideCursor + 1
    /\ alog' = alog \o <<"setOverrideCursor">>
    /\ apc' = "pump"
    /\ UNCHANGED <<path, img, meta, page, scene, lblTopLeft, lblTopRight, lblBottomRight, progress, alert>>
    /\ UNCHANGED <<dvars, mvars, gvars>>
    /\ UNCHANGED <<xvars, frames>>

\* the wait cursor is set and the window-modal progress dialog is shown; the
\* handler is then about to process events
OpenBusy ==
    /\ apc = "busy"
    /\ overrideCursor' = overrideCursor + 1
    /\ progress' = "shown"
    /\ alog' = alog \o <<"setOverrideCursor", "progress.show">>
    /\ apc' = "pump"
    /\ UNCHANGED <<path, img, meta, page, scene, lblTopLeft, lblTopRight, lblBottomRight, alert>>
    /\ UNCHANGED <<dvars, mvars, gvars>>
    /\ UNCHANGED <<xvars, frames>>

\* processEvents returns
OpenPump ==
    /\ apc = "pump"
    /\ alog' = Append(alog, "processEvents")
    /\ apc' = "load"
    /\ UNCHANGED <<path, img, meta, page, scene, lblTopLeft, lblTopRight, lblBottomRight, overrideCursor, progress, alert>>
    /\ UNCHANGED <<dvars, mvars, gvars>>
    /\ UNCHANGED <<xvars, frames>>

OpenLoad ==
    /\ apc = "load"
    /\ DecodeEnter(path)
    /\ alog' = Append(alog, "loadDicomImage")
    /\ apc' = "loading"
    /\ UNCHANGED <<path, img, meta, page, scene, lblTopLeft, lblTopRight, lblBottomRight, overrideCursor, progress, alert>>
    /\ UNCHANGED <<mvars, gvars>>
    /\ UNCHANGED <<xvars, frames>>

OpenLoaded ==
    /\ apc = "loading"
    /\ dpc = "done"
    /\ img' = dret
    /\ dpc' = "idle"
    /\ apc' = "meta"
    /\ UNCHANGED <<path, meta, alog, page, scene, lblTopLeft, lblTopRight, lblBottomRight, overrideCursor, progress, alert>>
    /\ UNCHANGED <<dpath, image, width, height, pixelData, result, finalImage, dret, dlog>>
    /\ UNCHANGED <<mvars, gvars>>
    /\ UNCHANGED <<xvars, frames>>

\* mutant of OpenMeta: extractMetadata called only for a decoded image
OpenMetaOnSuccess ==
    /\ apc = "meta"
    /\ IF img.null
       THEN /\ apc' = "unbusy"
            /\ UNCHANGED <<alog, mvars>>
       ELSE /\ MetaEnter(path)
            /\ alog' = Append(alog, "extractMetadata")
            /\ apc' = "extracting"
    /\ UNCHANGED <<path, img, meta, page, scene, lblTopLeft, lblTopRight, lblBottomRight, overrideCursor, progress, alert>>
    /\ UNCHANGED <<dvars, gvars>>
    /\ UNCHANGED <<xvars, frames>>

OpenMeta ==
    /\ apc = "meta"
    /\ MetaEnter(path)
    /\ alog' = Append(alog, "extractMetadata")
    /\ apc' = "extracting"
    /\ UNCHANGED <<path, img, meta, page, scene, lblTopLeft, lblTopRight, lblBottomRight, overrideCursor, progress, alert>>
    /\ UNCHANGED <<dvars, gvars>>
    /\ UNCHANGED <<xvars, frames>>

OpenExtracted ==
    /\ apc = "extracting"
    /\ mpc = "done"
    /\ meta' = mret
    /\ mpc' = "idle"
    /\ apc' = "unbusy"
    /\ UNCHANGED <<path, img, alog, page, scene, lblTopLeft, lblTopRight, lblBottomRight, overrideCursor, progress, alert>>
    /\ UNCHANGED <<mpath, data, tempVal, mret>>
    /\ UNCHANGED <<dvars, gvars>>
    /\ UNCHANGED <<xvars, frames>>

\* mutant of OpenUnbusy: the progress dialog is closed and the override cursor
\* is left in place
OpenUnbusyKeepsCursor ==
    /\ apc = "unbusy"
    /\ progress' = "closed"
    /\ alog' = alog \o <<"progress.close">>
    /\ apc' = "branch"
    /\ UNCHANGED <<path, img, meta, page, scene, lblTopLeft, lblTopRight, lblBottomRight, overrideCursor, alert>>
    /\ UNCHANGED <<dvars, mvars, gvars>>
    /\ UNCHANGED <<xvars, frames>>

OpenUnbusy ==
    /\ apc = "unbusy"
    /\ progress' = "closed"
    /\ overrideCursor' = overrideCursor - 1
    /\ alog' = alog \o <<"progress.close", "restoreOverrideCursor">>
    /\ apc' = "branch"
    /\ UNCHANGED <<path, img, meta, page, scene, lblTopLeft, lblTopRight, lblBottomRight, alert>>
    /\ UNCHANGED <<dvars, mvars, gvars>>
    /\ UNCHANGED <<xvars, frames>>

\* mutant of OpenShow: the overlay is formatted from the metadata without the
\* test of isValid
OpenShowUnchecked ==
    /\ apc = "branch"
    /\ ~img.null
    /\ scene' = <<PixmapItem(img)>>
    /\ viewScale' = Scaled(FitInView(viewScale, <<PixmapItem(img)>>), Dbl0_95)
    /\ trail' = <<[op |-> "open", v |-> viewScale']>>
    /\ IF meta.isValid
       THEN /\ lblTopLeft' = TopLeftText(meta)
            /\ lblTopRight' = TopRightText(meta)
            /\ lblBottomRight' = BottomRightText(meta)
       ELSE /\ lblTopLeft' = TopLeftText(meta)
            /\ lblTopRight' = TopRightText(meta)
            /\ lblBottomRight' = BottomRightText(meta)
    /\ page' = 1
    /\ Returns(Append(alog, "show"))
    /\ shownPath' = path
    /\ UNCHANGED <<overrideCursor, alert>>
    /\ UNCHANGED <<mainpc, codecs, btnToggleInfo, lblVisible>>
    /\ UNCHANGED <<dvars, mvars, seenImg, seenMeta>>

\* mutant of OpenShow: without valid metadata the two right-hand labels are
\* left as they are
OpenShowKeepsLabels ==
    /\ apc = "branch"
    /\ ~img.null
    /\ scene' = <<PixmapItem(img)>>
    /\ viewScale' = Scaled(FitInView(viewScale, <<PixmapItem(img)>>), Dbl0_95)
    /\ trail' = <<[op |-> "open", v |-> viewScale']>>
    /\ IF meta.isValid
       THEN /\ lblTopLeft' = TopLeftText(meta)
            /\ lblTopRight' = TopRightText(meta)
            /\ lblBottomRight' = BottomRightText(meta)
       ELSE /\ lblTopLeft' = UnavailableText
            /\ UNCHANGED <<lblTopRight, lblBottomRight>>
    /\ page' = 1
    /\ Returns(Append(alog, "show"))
    /\ shownPath' = path
    /\ UNCHANGED <<overrideCursor, alert>>
    /\ UNCHANGED <<mainpc, codecs, btnToggleInfo, lblVisible>>
    /\ UNCHANGED <<dvars, mvars, seenImg, seenMeta>>

\* the branch of a decoded image; the handler returns and its locals die
OpenShow ==
    /\ apc = "branch"
    /\ ~img.null
    /\ scene' = <<PixmapItem(img)>>
    /\ viewScale' = Scaled(FitInView(viewScale, <<PixmapItem(img)>>), Dbl0_95)
    /\ trail' = <<[op |-> "open", v |-> viewScale']>>
    /\ IF meta.isValid
       THEN /\ lblTopLeft' = TopLeftText(meta)
            /\ lblTopRight' = TopRightText(meta)
            /\ lblBottomRight' = BottomRightText(meta)
       ELSE /\ lblTopLeft' = UnavailableText
            /\ lblTopRight' = <<>>
            /\ lblBottomRight' = <<>>
    /\ page' = 1
    /\ Returns(Append(alog, "show"))
    /\ shownPath' = path
    /\ UNCHANGED <<overrideCursor, alert>>
    /\ UNCHANGED <<mainpc, codecs, btnToggleInfo, lblVisible>>
    /\ UNCHANGED <<dvars, mvars, seenImg, seenMeta>>

\* mutant of OpenError: the failed open also empties the scene and goes back
\* to the welcome page
OpenErrorClears ==
    /\ apc = "branch"
    /\ img.null
    /\ alert' = TRUE
    /\ alog' = Append(alog, "critical")
    /\ apc' = "alert"
    /\ scene' = <<>>
    /\ page' = 0
    /\ UNCHANGED <<path, img, meta, lblTopLeft, lblTopRight, lblBottomRight, overrideCursor, progress>>
    /\ UNCHANGED <<dvars, mvars, gvars>>
    /\ UNCHANGED <<xvars, frames>>

\* the branch of a null image: the message box opens and blocks the handler
OpenError ==
    /\ apc = "branch"
    /\ img.null
    /\ alert' = TRUE
    /\ alog' = Append(alog, "critical")
    /\ apc' = "alert"
    /\ UNCHANGED <<path, img, meta, page, scene, lblTopLeft, lblTopRight, lblBottomRight, overrideCursor, progress>>
    /\ UNCHANGED <<dvars, mvars, gvars>>
    /\ UNCHANGED <<xvars, frames>>

\* the message box is dismissed; the handler returns and its locals die
OpenErrorClosed ==
    /\ apc = "alert"
    /\ alert' = FALSE
    /\ Returns(alog)
    /\ UNCHANGED <<page, scene, lblTopLeft, lblTopRight, lblBottomRight, overrideCursor>>
    /\ UNCHANGED <<dvars, mvars, gvars>>
    /\ UNCHANGED xvars

openDicomAction ==
    \/ OpenCancel
    \/ \E f \in AppFiles : OpenChoose(f)
    \/ OpenBusy
    \/ OpenPump
    \/ OpenLoad
    \/ OpenLoaded
    \/ OpenMeta
    \/ OpenExtracted
    \/ OpenUnbusy
    \/ OpenShow
    \/ OpenError
    \/ OpenErrorClosed

\* mutant of Back: the welcome page is shown and the scene is not cleared
BackKeepsScene ==
    /\ Dispatch
    /\ page = 1
    /\ page' = 0
    /\ UNCHANGED <<apc, path, img, meta, alog, scene, lblTopLeft, lblTopRight, lblBottomRight, overrideCursor, progress, alert>>
    /\ UNCHANGED <<dvars, mvars, gvars>>
    /\ UNCHANGED <<xvars, frames>>

\* btnBack clicked
Back ==
    /\ Dispatch
    /\ page = 1
    /\ scene' = <<>>
    /\ page' = 0
    /\ UNCHANGED <<apc, path, img, meta, alog, lblTopLeft, lblTopRight, lblBottomRight, overrideCursor, progress, alert>>
    /\ UNCHANGED <<dvars, mvars, gvars>>
    /\ UNCHANGED <<xvars, frames>>

\* mutant of ZoomIn: the button scales by the factor of the Ctrl++ shortcut
ZoomInBySixFifths ==
    /\ Dispatch
    /\ page = 1
    /\ Len(trail) <= MaxZoom
    /\ viewScale' = Scaled(viewScale, Dbl1_20)
    /\ trail' = Append(trail, [op |-> "ZoomIn", v |-> viewScale'])
    /\ UNCHANGED <<mainpc, codecs, btnToggleInfo, lblVisible, shownPath>>
    /\ UNCHANGED <<appvars, dvars, mvars, seenImg, seenMeta>>

\* btnZoomIn clicked
ZoomIn ==
    /\ Dispatch
    /\ page = 1
    /\ Len(trail) <= MaxZoom
    /\ viewScale' = Scaled(viewScale, Dbl1_25)
    /\ trail' = Append(trail, [op |-> "ZoomIn", v |-> viewScale'])
    /\ UNCHANGED <<mainpc, codecs, btnToggleInfo, lblVisible, shownPath>>
    /\ UNCHANGED <<appvars, dvars, mvars, seenImg, seenMeta>>

\* btnZoomOut clicked
ZoomOut ==
    /\ Dispatch
    /\ page = 1
    /\ Len(trail) <= MaxZoom
    /\ viewScale' = Scaled(viewScale, Dbl0_8)
    /\ trail' = Append(trail, [op |-> "ZoomOut", v |-> viewScale'])
    /\ UNCHANGED <<mainpc, codecs, btnToggleInfo, lblVisible, shownPath>>
    /\ UNCHANGED <<appvars, dvars, mvars, seenImg, seenMeta>>

\* btnFit clicked
Fit ==
    /\ Dispatch
    /\ page = 1
    /\ viewScale' = FitInView(viewScale, scene)
    /\ trail' = IF scene = <<>> THEN trail ELSE <<[op |-> "fitInView", v |-> viewScale']>>
    /\ UNCHANGED <<mainpc, codecs, btnToggleInfo, lblVisible, shownPath>>
    /\ UNCHANGED <<appvars, dvars, mvars, seenImg, seenMeta>>

\* mutant of InfoToggled: the bottom-right label is left as it is
InfoToggledTwoLabels(isChecked) ==
    /\ lblVisible' = [l \in Labels |-> IF l = "lblBottomRight" THEN lblVisible[l] ELSE isChecked]
    /\ btnToggleInfo' = [checked |-> isChecked, text |-> IF isChecked THEN CaptionOn ELSE CaptionOff]

\* the handler of btnToggleInfo's toggled(checked)
InfoToggled(isChecked) ==
    /\ lblVisible' = [l \in Labels |-> isChecked]
    /\ btnToggleInfo' = [checked |-> isChecked, text |-> IF isChecked THEN CaptionOn ELSE CaptionOff]

\* btnToggleInfo clicked: the check state flips and toggled is emitted
ToggleInfo ==
    /\ Dispatch
    /\ page = 1
    /\ InfoToggled(~btnToggleInfo.checked)
    /\ UNCHANGED <<mainpc, codecs, viewScale, shownPath>>
    /\ UNCHANGED <<appvars, dvars, mvars, gvars>>

\* Ctrl++ (the shortcuts belong to the window and work on both pages)
ShortcutZoomIn ==
    /\ Dispatch
    /\ Len(trail) < MaxZoom
    /\ viewScale' = Scaled(viewScale, Dbl1_20)
    /\ trail' = Append(trail, [op |-> "ShortcutZoomIn", v |-> viewScale'])
    /\ UNCHANGED <<mainpc, codecs, btnToggleInfo, lblVisible, shownPath>>
    /\ UNCHANGED <<appvars, dvars, mvars, seenImg, seenMeta>>

\* Ctrl+-
ShortcutZoomOut ==
    /\ Dispatch
    /\ Len(trail) < MaxZoom
    /\ viewScale' = Scaled(viewScale, Dbl0_8)
    /\ trail' = Append(trail, [op |-> "ShortcutZoomOut", v |-> viewScale'])
    /\ UNCHANGED <<mainpc, codecs, btnToggleInfo, lblVisible, shownPath>>
    /\ UNCHANGED <<appvars, dvars, mvars, seenImg, seenMeta>>

\* Ctrl+0
ShortcutReset ==
    /\ Dispatch
    /\ viewScale' = FitInView(viewScale, scene)
    /\ trail' = IF scene = <<>> THEN trail ELSE <<[op |-> "fitInView", v |-> viewScale']>>
    /\ UNCHANGED <<mainpc, codecs, btnToggleInfo, lblVisible, shownPath>>
    /\ UNCHANGED <<appvars, dvars, mvars, seenImg, seenMeta>>

\* Ctrl+I: btnToggleInfo->toggle()
ShortcutInfo ==
    /\ Dispatch
    /\ InfoToggled(~btnToggleInfo.checked)
    /\ UNCHANGED <<mainpc, codecs, viewScale, shownPath>>
    /\ UNCHANGED <<appvars, dvars, mvars, gvars>>

(***************************************************************************)
(* main: the registrations, the event loop, and the cleanup after it.       *)
(***************************************************************************)
MainRegisterJpeg ==
    /\ mainpc = "regJpeg"
    /\ codecs' = [codecs EXCEPT !["DJDecoder"] = registerCodecs(@)]
    /\ mainpc' = "regJpls"
    /\ UNCHANGED <<btnToggleInfo, lblVisible, viewScale, shownPath>>
    /\ UNCHANGED <<appvars, dvars, mvars, gvars>>

MainRegisterJpls ==
    /\ mainpc = "regJpls"
    /\ codecs' = [codecs EXCEPT !["DJLSDecoder"] = registerCodecs(@)]
    /\ mainpc' = "regRle"
    /\ UNCHANGED <<btnToggleInfo, lblVisible, viewScale, shownPath>>
    /\ UNCHANGED <<appvars, dvars, mvars, gvars>>

\* mutant of MainRegisterRle: the RLE decoder is left unregistered
MainRegisterRleSkipped ==
    /\ mainpc = "regRle"
    /\ mainpc' = "show"
    /\ UNCHANGED <<codecs, btnToggleInfo, lblVisible, viewScale, shownPath>>
    /\ UNCHANGED <<appvars, dvars, mvars, gvars>>

MainRegisterRle ==
    /\ mainpc = "regRle"
    /\ codecs' = [codecs EXCEPT !["DcmRLEDecoder"] = registerCodecs(@)]
    /\ mainpc' = "show"
    /\ UNCHANGED <<btnToggleInfo, lblVisible, viewScale, shownPath>>
    /\ UNCHANGED <<appvars, dvars, mvars, gvars>>

\* the window is built and shown and app.exec() starts the event loop
MainExec ==
    /\ mainpc = "show"
    /\ mainpc' = "exec"
    /\ UNCHANGED <<codecs, btnToggleInfo, lblVisible, viewScale, shownPath>>
    /\ UNCHANGED <<appvars, dvars, mvars, gvars>>

\* the window is closed and app.exec() returns
MainQuit ==
    /\ mainpc = "exec"
    /\ apc = "idle"
    /\ mainpc' = "cleanJpeg"
    /\ UNCHANGED <<codecs, btnToggleInfo, lblVisible, viewScale, shownPath>>
    /\ UNCHANGED <<appvars, dvars, mvars, gvars>>

MainCleanupJpeg ==
    /\ mainpc = "cleanJpeg"
    /\ codecs' = [codecs EXCEPT !["DJDecoder"] = cleanup(@)]
    /\ mainpc' = "cleanJpls"
    /\ UNCHANGED <<btnToggleInfo, lblVisible, viewScale, shownPath>>
    /\ UNCHANGED <<appvars, dvars, mvars, gvars>>

MainCleanupJpls ==
    /\ mainpc = "cleanJpls"
    /\ codecs' = [codecs EXCEPT !["DJLSDecoder"] = cleanup(@)]
    /\ mainpc' = "cleanRle"
    /\ UNCHANGED <<btnToggleInfo, lblVisible, viewScale, shownPath>>
    /\ UNCHANGED <<appvars, dvars, mvars, gvars>>

MainCleanupRle ==
    /\ mainpc = "cleanRle"
    /\ codecs' = [codecs EXCEPT !["DcmRLEDecoder"] = cleanup(@)]
    /\ mainpc' = "returned"
    /\ UNCHANGED <<btnToggleInfo, lblVisible, viewScale, shownPath>>
    /\ UNCHANGED <<appvars, dvars, mvars, gvars>>

Init ==
    /\ DecodeIdle
    /\ MetaIdle
    /\ AppInit
    /\ MainInit
    /\ GhostInit

Next ==
    \/ openDicomAction
    \/ Back
    \/ loadDicomImage
    \/ extractMetadata
    \/ ZoomIn
    \/ ZoomOut
    \/ Fit
    \/ ToggleInfo
    \/ ShortcutZoomIn
    \/ ShortcutZoomOut
    \/ ShortcutReset
    \/ ShortcutInfo
    \/ MainRegisterJpeg
    \/ MainRegisterJpls
    \/ MainRegisterRle
    \/ MainExec
    \/ MainQuit
    \/ MainCleanupJpeg
    \/ MainCleanupJpls
    \/ MainCleanupRle

Spec == Init /\ [][Next]_vars

(***************************************************************************)
(* The program with its handlers running to completion: a handler that has *)
(* started takes its next statement, and the two library-bound functions   *)
(* return.  Closing the error alert is left to the user.                   *)
(***************************************************************************)
HandlerStep ==
    \/ OpenBusy
    \/ OpenPump
    \/ OpenLoad
    \/ OpenLoaded
    \/ OpenMeta
    \/ OpenExtracted
    \/ OpenUnbusy
    \/ OpenShow
    \/ OpenError
    \/ loadDicomImage
    \/ extractMetadata

SpecLive == Init /\ [][Next]_vars /\ WF_vars(HandlerStep)

(***************************************************************************)
(* Direct calls of the two functions, one at a time, in any order, on the  *)
(* files of CallFiles; the first result of each function on each file is   *)
(* remembered.                                                             *)
(***************************************************************************)
\* the files that stay as they are between two reads
CallFiles == AppFiles \ {FileF}

Unseen == [f \in CallFiles |-> [seen |-> FALSE, img |-> NullImage, meta |-> DefaultMetadata]]

CallDecode(f) ==
    /\ dpc = "idle"
    /\ mpc = "idle"
    /\ DecodeEnter(f)
    /\ UNCHANGED <<mvars, avars, gvars>>

ReturnDecode ==
    /\ dpc = "done"
    /\ dpc' = "idle"
    /\ seenImg' = IF seenImg[dpath].seen THEN seenImg
                  ELSE [seenImg EXCEPT ![dpath] = [seen |-> TRUE, img |-> dret, meta |-> DefaultMetadata]]
    /\ UNCHANGED <<dpath, image, width, height, pixelData, result, finalImage, dret, dlog>>
    /\ UNCHANGED <<mvars, avars, seenMeta, trail>>

CallMeta(f) ==
    /\ dpc = "idle"
    /\ mpc = "idle"
    /\ MetaEnter(f)
    /\ UNCHANGED <<dvars, avars, gvars>>

ReturnMeta ==
    /\ mpc = "done"
    /\ mpc' = "idle"
    /\ seenMeta' = IF seenMeta[mpath].seen THEN seenMeta
                   ELSE [seenMeta EXCEPT ![mpath] = [seen |-> TRUE, img |-> NullImage, meta |-> mret]]
    /\ UNCHANGED <<mpath, data, tempVal, mret>>
    /\ UNCHANGED <<dvars, avars, seenImg, trail>>

InitCalls ==
    /\ DecodeIdle
    /\ MetaIdle
    /\ AppInit
    /\ MainRunning
    /\ seenImg = Unseen
    /\ seenMeta = Unseen
    /\ trail = <<[op |-> "identity", v |-> IdentityScale]>>

NextCalls ==
    \/ \E f \in CallFiles : CallDecode(f)
    \/ ReturnDecode
    \/ \E f \in CallFiles : CallMeta(f)
    \/ ReturnMeta
    \/ loadDicomImage
    \/ extractMetadata

SpecCalls == InitCalls /\ [][NextCalls]_vars

(***************************************************************************)
(* loadDicomImage applied to every file of DecodeFiles.                    *)
(***************************************************************************)
InitDecode ==
    /\ dpc = "new"
    /\ dpath \in DecodeFiles
    /\ image = NoImage
    /\ width = 0
    /\ height = 0
    /\ pixelData = "null"
    /\ result = NullImage
    /\ finalImage = NullImage
    /\ dret = NullImage
    /\ dlog = <<>>
    /\ MetaIdle
    /\ AppInit
    /\ MainRunning
    /\ GhostInit

NextDecode == loadDicomImage

SpecDecode == InitDecode /\ [][NextDecode]_vars

(***************************************************************************)
(* extractMetadata applied to every file of MetaFiles.                     *)
(***************************************************************************)
InitMeta ==
    /\ DecodeIdle
    /\ mpc = "load"
    /\ mpath \in MetaFiles
    /\ data = DefaultMetadata
    /\ tempVal = <<>>
    /\ mret = DefaultMetadata
    /\ AppInit
    /\ MainRunning
    /\ GhostInit

NextMeta == extractMetadata

SpecMeta == InitMeta /\ [][NextMeta]_vars

(***************************************************************************)
(* Properties of loadDicomImage.                                           *)
(***************************************************************************)
Has(s, e) == e \in Range(s)

Count(s, e) == Cardinality({i \in 1..Len(s) : s[i] = e})

First(s, e) == CHOOSE i \in 1..Len(s) : s[i] = e /\ \A j \in 1..(i - 1) : s[j] # e

\* a QImage that owns a fully written w x h image, one byte per pixel
Complete(q) ==
    /\ ~q.null
    /\ ~q.ext
    /\ q.width >= 1
    /\ q.height >= 1
    /\ q.bpl >= q.width
    /\ Len(q.bits) = q.bpl * q.height
    /\ \A p \in PixelsOf(q) : p \in 0..255

Blank(q) == PixelsOf(q) \subseteq {0} \/ PixelsOf(q) \subseteq {255}

Decodable(f) == f.status = "EIS_Normal" /\ f.renders

\* C1: loadDicomImage returns the null image or a complete image, never a
\* partially filled one, and returns the null image whenever the status of
\* the parsed object is not normal or the rendered output buffer is absent.
C1_NullOrComplete ==
    dpc = "done" =>
        /\ dret = NullImage \/ Complete(dret)
        /\ (dpath.status # "EIS_Normal" \/ ~dpath.renders) => dret = NullImage

C1_Witness ==
    /\ dpc = "done"
    /\ dpath.status = "EIS_Normal"
    /\ ~dpath.renders
    /\ Has(dlog, "getOutputData")
    /\ dret = NullImage

WindowCalls == {"setWindow:ok", "setWindow:fail", "setMinMaxWindow"}

\* C3: the first stored preset is attempted first, the min/max window is
\* applied if and only if that attempt fails, and every window call
\* precedes the rendering of the 8-bit output.
C3_PresetThenMinMax ==
    /\ Count(dlog, "setWindow:ok") + Count(dlog, "setWindow:fail") <= 1
    /\ Count(dlog, "setMinMaxWindow") <= 1
    /\ Has(dlog, "setMinMaxWindow") =>
           /\ Has(dlog, "setWindow:fail")
           /\ First(dlog, "setMinMaxWindow") = First(dlog, "setWindow:fail") + 1
    /\ (dpc = "dims" \/ Has(dlog, "getWidth")) =>
           /\ Has(dlog, "setWindow:ok") \/ Has(dlog, "setWindow:fail")
           /\ Has(dlog, "setMinMaxWindow") <=> Has(dlog, "setWindow:fail")
           /\ Has(dlog, "setMinMaxWindow") <=> ~SetWindowOk(dpath)
    /\ Has(dlog, "getOutputData") =>
           \A i \in 1..Len(dlog) : dlog[i] \in WindowCalls => i < First(dlog, "getOutputData")
    /\ (Has(dlog, "setWindow:ok") /\ image.alive) =>
           image.win = [set |-> TRUE, c2 |-> 2 * Head(dpath.presets).center, w |-> Head(dpath.presets).width]

C3_Witness ==
    /\ dpc = "done"
    /\ ~dret.null
    /\ Len(dpath.presets) = 2
    /\ Has(dlog, "setWindow:fail")
    /\ Has(dlog, "setMinMaxWindow")

\* C4: for a decodable file on which the preset attempt fails (in particular
\* one without a window preset) and whose source pixel values are not all
\* equal, the returned buffer is not blank: every source pixel of the lowest
\* value is at one end of 0..255 and every one of the highest value at the
\* other end (0 and 255 for MONOCHROME2, 255 and 0 for MONOCHROME1).
C4_MinMaxNotBlank ==
    (dpc = "done" /\ Decodable(dpath) /\ ~SetWindowOk(dpath)
        /\ SeqMin(dpath.pixels) # SeqMax(dpath.pixels)) =>
        /\ ~dret.null
        /\ ~Blank(dret)
        /\ \A i \in 1..Len(dpath.pixels) :
              LET x == (i - 1) % dpath.cols.val
                  y == (i - 1) \div dpath.cols.val
                  lo == IF dpath.photometric = "MONOCHROME1" THEN 255 ELSE 0
              IN  /\ dpath.pixels[i] = SeqMin(dpath.pixels) => Pixel(dret, x, y) = lo
                  /\ dpath.pixels[i] = SeqMax(dpath.pixels) => Pixel(dret, x, y) = 255 - lo

C4_Witness ==
    /\ dpc = "done"
    /\ Decodable(dpath)
    /\ dpath.presets = <<>>
    /\ dpath.photometric = "MONOCHROME2"
    /\ SeqMin(dpath.pixels) > 0
    /\ SeqMin(dpath.pixels) # SeqMax(dpath.pixels)
    /\ ~dret.null
    /\ 0 \in PixelsOf(dret)
    /\ 255 \in PixelsOf(dret)

\* the positions of loadDicomImage at which the DicomImage object is in use
UsesImage == {"check", "window", "minmax", "dims", "output", "branch", "copy", "delete", "cleanup"}

\* C15: on every return path of loadDicomImage (status not normal, output
\* buffer absent, success) the DicomImage object created by the call is
\* deleted exactly once before the function returns: it is not leaked, not
\* deleted twice, and no call is made on it after its deletion.
C15_DecoderReleasedOnce ==
    /\ image.deletes <= 1
    /\ Count(dlog, "new") <= 1
    /\ Count(dlog, "delete") = image.deletes
    /\ dpc \in UsesImage => image.alive /\ image.deletes = 0
    /\ Has(dlog, "delete") => ~image.alive /\ dlog[Len(dlog)] = "delete"
    /\ dpc = "done" => Count(dlog, "new") = 1 /\ image.deletes = 1 /\ ~image.alive

C15_Witness ==
    /\ dpc = "done"
    /\ dpath.status = "EIS_MissingAttribute"
    /\ dlog = <<"new", "getStatus", "delete">>
    /\ image.deletes = 1
    /\ ~image.alive

\* C16: on the success path the rendered bytes are copied into a buffer the
\* returned image owns while the DicomImage object is still alive; the
\* returned image refers to that copy only, and after the deletion of the
\* object (which frees the rendered buffer) its pixels are still the
\* rendered ones.
C16_CopyOutlivesDecoder ==
    /\ (Has(dlog, "copy") /\ Has(dlog, "delete")) => First(dlog, "copy") < First(dlog, "delete")
    /\ dpc = "copy" => image.alive /\ Len(image.out) = width * height
    /\ (dpc \in {"delete", "return"} \/ (dpc = "done" /\ Decodable(dpath))) =>
           /\ ~finalImage.null
           /\ ~finalImage.ext
           /\ Len(finalImage.bits) = finalImage.bpl * finalImage.height
           /\ \A x \in 0..(width - 1), y \in 0..(height - 1) :
                  Pixel(finalImage, x, y) = GetOutputData(dpath, image)[y * width + x + 1]
    /\ (dpc = "done" /\ Decodable(dpath)) =>
           /\ dret = finalImage
           /\ ~image.alive
           /\ image.out = <<>>

C16_Witness ==
    /\ dpc = "done"
    /\ dpath.photometric = "MONOCHROME1"
    /\ ~dret.null
    /\ ~dret.ext
    /\ dret.width = 3
    /\ dret.height = 2
    /\ ~image.alive
    /\ image.out = <<>>
    /\ Has(dlog, "copy")

(***************************************************************************)
(* Properties of extractMetadata.                                          *)
(***************************************************************************)
TextFields == {"patientName", "patientID", "studyDate", "modality", "institution"}

\* C5: when the header parse fails the returned record has isValid false
\* and every text field empty, whatever the file holds.
C5_FailedParseIsDefault ==
    (mpc = "done" /\ ~mpath.headerOk) =>
        mret = [patientName |-> <<>>, patientID |-> <<>>, studyDate |-> <<>>, modality |-> <<>>,
                institution |-> <<>>, dimensions |-> <<>>, isValid |-> FALSE]

C5_Witness ==
    /\ mpc = "done"
    /\ ~mpath.headerOk
    /\ mpath.patientName.has
    /\ mpath.studyDate.has
    /\ ~mret.isValid

\* C6: when the header parses, isValid is true however many of the five
\* text tags are missing, and the field of every missing tag is "N/A".
C6_AbsentTagIsNA ==
    (mpc = "done" /\ mpath.headerOk) =>
        /\ mret.isValid
        /\ \A t \in TextFields : ~mpath[t].has => mret[t] = <<"N", "/", "A">>

C6_Witness ==
    /\ mpc = "done"
    /\ mpath.headerOk
    /\ \A t \in TextFields : ~mpath[t].has
    /\ mret.isValid
    /\ mret.studyDate = <<"N", "/", "A">>

\* C7: a raw study date of exactly 8 characters is returned as
\* raw[6:8] "/" raw[4:6] "/" raw[0:4]; a raw value of any other length,
\* the substituted "N/A" included, is returned unchanged.
C7_DateReformat ==
    (mpc = "done" /\ mpath.headerOk) =>
        LET raw == getTag(mpath.studyDate)
        IN  IF Len(raw) = 8
            THEN mret.studyDate = <<raw[7], raw[8], "/", raw[5], raw[6], "/", raw[1], raw[2], raw[3], raw[4]>>
            ELSE mret.studyDate = raw

C7_Witness ==
    /\ mpc = "done"
    /\ mpath.headerOk
    /\ mpath.studyDate = Present(<<"2", "0", "2", "4", "0", "3", "1", "5">>)
    /\ mret.studyDate = <<"1", "5", "/", "0", "3", "/", "2", "0", "2", "4">>

DigitOf(c) == CHOOSE d \in 0..9 : DigitChars[d + 1] = c

IsDigits(t) == t # <<>> /\ \A i \in 1..Len(t) : t[i] \in Range(DigitChars)

RECURSIVE DigitsValue(_)
DigitsValue(t) == IF t = <<>> THEN 0 ELSE 10 * DigitsValue(SubSeq(t, 1, Len(t) - 1)) + DigitOf(t[Len(t)])

IsDecimal(t) == IF t # <<>> /\ Head(t) = "-" THEN IsDigits(Tail(t)) ELSE IsDigits(t)

DecimalValue(t) == IF Head(t) = "-" THEN 0 - DigitsValue(Tail(t)) ELSE DigitsValue(t)

\* C8: when the header parses, dimensions reads "<columns> x <rows> px",
\* columns first, each number the tag's value as it is or 0 when the tag is
\* absent.
C8_DimensionsText ==
    (mpc = "done" /\ mpath.headerOk) =>
        LET d == mret.dimensions
            k == First(d, " ")
            c == SubSeq(d, 1, k - 1)
            r == SubSeq(d, k + 3, Len(d) - 3)
        IN  /\ Has(d, " ")
            /\ SubSeq(d, k, k + 2) = <<" ", "x", " ">>
            /\ SubSeq(d, Len(d) - 2, Len(d)) = <<" ", "p", "x">>
            /\ IsDecimal(c)
            /\ IsDecimal(r)
            /\ DecimalValue(c) = (IF mpath.cols.has THEN mpath.cols.val ELSE 0)
            /\ DecimalValue(r) = (IF mpath.rows.has THEN mpath.rows.val ELSE 0)
            /\ (mpath.cols = Present(512) /\ mpath.rows = Present(512)) =>
                   d = <<"5", "1", "2", " ", "x", " ", "5", "1", "2", " ", "p", "x">>
            /\ (~mpath.cols.has /\ ~mpath.rows.has) =>
                   d = <<"0", " ", "x", " ", "0", " ", "p", "x">>

C8_Witness ==
    /\ mpc = "done"
    /\ mpath.cols = Present(12)
    /\ ~mpath.rows.has
    /\ mret.dimensions = <<"1", "2", " ", "x", " ", "0", " ", "p", "x">>

(***************************************************************************)
(* Properties of sequences of calls.                                       *)
(***************************************************************************)
\* QImage::operator==: the same size and the same pixels
SameImage(a, b) ==
    /\ a.null = b.null
    /\ a.width = b.width
    /\ a.height = b.height
    /\ \A x \in 0..(a.width - 1), y \in 0..(a.height - 1) : Pixel(a, x, y) = Pixel(b, x, y)

AfterCalls == {"unbusy", "branch", "alert"}

\* C10 as claimed: the Decoder runs first and the Metadata Extractor runs
\* only when the Decoder has succeeded.
C10_ExtractorOnlyOnSuccess ==
    /\ Has(alog, "extractMetadata") =>
           Has(alog, "loadDicomImage") /\ First(alog, "loadDicomImage") < First(alog, "extractMetadata")
    /\ (apc \in {"extracting"} \cup AfterCalls /\ img.null) => ~Has(alog, "extractMetadata")

\* C10 as amended: the Decoder runs first and the Metadata Extractor runs
\* once after the Decoder has returned, whether decode succeeded or failed.
C10_DecoderThenExtractor ==
    /\ Count(alog, "loadDicomImage") <= 1
    /\ Count(alog, "extractMetadata") <= 1
    /\ Has(alog, "extractMetadata") =>
           Has(alog, "loadDicomImage") /\ First(alog, "loadDicomImage") < First(alog, "extractMetadata")
    /\ mpc # "idle" => dpc = "idle" /\ apc = "extracting"
    /\ dpc # "idle" => apc = "loading" /\ ~Has(alog, "extractMetadata")
    /\ apc \in AfterCalls => Has(alog, "loadDicomImage") /\ Has(alog, "extractMetadata")

C10_Witness ==
    /\ apc = "alert"
    /\ img.null
    /\ Has(alog, "extractMetadata")
    /\ meta.isValid
    /\ mpath = path
    /\ dpath = path

\* what the user sees of the viewer: page, scene and overlay texts
Shown == <<page, scene, lblTopLeft, lblTopRight, lblBottomRight>>

\* C11: an open-file action whose decode fails shows one blocking error
\* alert and nothing else: no step of the action changes the page, the scene
\* or the text of the three overlay labels, so they are the same after the
\* action as before it.
C11_FailedOpenChangesNothing ==
    /\ [](/\ alert <=> apc = "alert"
          /\ apc = "alert" => img.null /\ Count(alog, "critical") = 1 /\ ~Has(alog, "show")
          /\ Has(alog, "critical") => Count(alog, "critical") = 1 /\ ~Has(alog, "show"))
    /\ [][/\ (apc = "idle" /\ apc' # "idle") => UNCHANGED Shown
          /\ (apc # "idle" /\ (apc' # "idle" \/ Has(alog', "critical"))) => UNCHANGED Shown
          /\ (apc = "branch" /\ img.null /\ apc' # apc) => alert'
          /\ (alert /\ ~alert') => apc' = "idle"]_vars

C11_Witness ==
    /\ apc = "alert"
    /\ alert
    /\ path = FileE
    /\ page = 1
    /\ shownPath = FileA
    /\ scene # <<>>
    /\ meta.isValid
    /\ lblTopLeft # <<>>
    /\ lblTopLeft # TopLeftText(meta)
    /\ Has(alog, "critical")

\* C12: when decode succeeded and extractMetadata returned isValid = FALSE,
\* the open action still puts the image into the scene and switches to the
\* viewer page; the top-left label shows the placeholder text, the other
\* two labels are empty, and no error alert is shown.
C12_InvalidMetadataStillShows ==
    [][(apc = "branch" /\ ~img.null /\ ~meta.isValid /\ apc' # apc) =>
          /\ apc' = "idle"
          /\ page' = 1
          /\ scene' = <<PixmapItem(img)>>
          /\ lblTopLeft' = UnavailableText
          /\ lblTopRight' = <<>>
          /\ lblBottomRight' = <<>>
          /\ ~alert'
          /\ ~Has(alog', "critical")
          /\ Has(alog', "show")]_vars

C12_Witness ==
    /\ apc = "idle"
    /\ shownPath = FileF
    /\ ~mret.isValid
    /\ ~dret.null
    /\ page = 1
    /\ scene = <<PixmapItem(dret)>>
    /\ lblTopLeft = UnavailableText
    /\ lblTopRight = <<>>
    /\ alog[Len(alog)] = "show"

\* positions of e in s
Places(s, e) == {i \in 1..Len(s) : s[i] = e}

\* every e1 of s stands before every e2 of s
Before(s, e1, e2) == \A i \in Places(s, e1), j \in Places(s, e2) : i < j

\* C14 as claimed: with a chosen path the busy indicator is shown and pending
\* events are processed once before the two blocking calls, and pending
\* events are processed again after the calls, to dismiss the indicator.
C14_PumpsBeforeAndAfter ==
    /\ Has(alog, "loadDicomImage") =>
           /\ Has(alog, "progress.show")
           /\ Has(alog, "processEvents")
           /\ Before(alog, "progress.show", "loadDicomImage")
           /\ First(alog, "processEvents") < First(alog, "loadDicomImage")
    /\ Has(alog, "progress.close") =>
           \E i \in Places(alog, "processEvents") : i > First(alog, "extractMetadata")

\* C14 as amended: with a chosen path the wait cursor is set, the progress
\* dialog is shown and pending events are processed, in this order and once
\* each, before the two blocking calls; after the calls the dialog is closed
\* and the cursor restored directly, and the action processes no events a
\* second time.
C14_PumpsOnceBeforeCalls ==
    /\ Count(alog, "processEvents") <= 1
    /\ Count(alog, "progress.show") <= 1
    /\ Has(alog, "loadDicomImage") =>
           /\ Has(alog, "setOverrideCursor") /\ Has(alog, "progress.show") /\ Has(alog, "processEvents")
           /\ Before(alog, "setOverrideCursor", "progress.show")
           /\ Before(alog, "progress.show", "processEvents")
           /\ Before(alog, "processEvents", "loadDicomImage")
    /\ (dpc # "idle" \/ mpc # "idle") => progress = "shown" /\ overrideCursor = 1
    /\ Has(alog, "progress.close") =>
           /\ Before(alog, "loadDicomImage", "progress.close")
           /\ Before(alog, "extractMetadata", "progress.close")
           /\ Before(alog, "progress.close", "restoreOverrideCursor")
           /\ Before(alog, "processEvents", "extractMetadata")
           /\ progress = "closed"

C14_Witness ==
    /\ apc = "branch"
    /\ ~img.null
    /\ Count(alog, "processEvents") = 1
    /\ Has(alog, "progress.close")
    /\ Has(alog, "restoreOverrideCursor")
    /\ progress = "closed"

\* C17: after any sequence of user actions (opens that succeed, fail or are
\* cancelled, back, zoom, reset, toggle) the scene holds at most one image;
\* it holds one exactly when the viewer page is current and is empty exactly
\* when the welcome page is current; the viewer page is entered, and an
\* image put into the scene, only by an open action whose decode succeeded.
C17_OneImageIffViewer ==
    /\ [](/\ page \in {0, 1}
          /\ Len(scene) <= 1
          /\ Len(scene) = 1 <=> page = 1
          /\ scene = <<>> <=> page = 0)
    /\ [][/\ (page = 0 /\ page' = 1) => (apc = "branch" /\ ~img.null /\ Has(alog', "show"))
          /\ (scene' # scene /\ scene' # <<>>) =>
                 (apc = "branch" /\ ~img.null /\ img = dret /\ scene' = <<PixmapItem(img)>>)]_vars

C17_Witness ==
    /\ apc = "idle"
    /\ page = 0
    /\ scene = <<>>
    /\ shownPath = FileB
    /\ Has(alog, "critical")
    /\ viewScale = Scaled(Scale("fit", Dbl1), Dbl1_25)
    /\ ~btnToggleInfo.checked

\* what loadDicomImage makes of file f alone
ImageOf(f) ==
    IF ~Decodable(f) THEN NullImage
    ELSE LET win == IF SetWindowOk(f) THEN PresetWindow(f) ELSE MinMaxWindow(f.pixels)
             im == [NewDicomImage(f) EXCEPT !.win = win]
         IN  QImageCopy(WrapImage(GetWidth(f), GetHeight(f), GetWidth(f)), GetOutputData(f, im))

\* what extractMetadata makes of file f alone
MetadataOf(f) ==
    IF ~f.headerOk THEN DefaultMetadata
    ELSE [DefaultMetadata EXCEPT !.patientName = getTag(f.patientName),
                                 !.patientID = getTag(f.patientID),
                                 !.studyDate = ReformatDate(getTag(f.studyDate)),
                                 !.modality = getTag(f.modality),
                                 !.institution = getTag(f.institution),
                                 !.dimensions = FormatDimensions(FindLongInt(f.cols), FindLongInt(f.rows)),
                                 !.isValid = TRUE]

\* the three overlay texts for metadata m
OverlayOf(m) ==
    IF m.isValid THEN <<TopLeftText(m), TopRightText(m), BottomRightText(m)>>
    ELSE <<UnavailableText, <<>>, <<>>>>

\* C18: whenever the viewer page is current, the image in the scene and the
\* text of the three overlay labels are those of one file, the file of the
\* most recent open action that displayed an image, and are what that file
\* alone yields: nothing of an earlier opened file and nothing of a later
\* failed or cancelled open is in them.
C18_ViewOfLastOpenedFile ==
    /\ dpc = "done" => dret = ImageOf(dpath)
    /\ mpc = "done" => mret = MetadataOf(mpath)
    /\ page = 1 =>
           /\ shownPath \in AppFiles
           /\ Decodable(shownPath)
           /\ scene = <<PixmapItem(ImageOf(shownPath))>>
           /\ <<lblTopLeft, lblTopRight, lblBottomRight>> = OverlayOf(MetadataOf(shownPath))

C18_Witness ==
    /\ apc = "alert"
    /\ path = FileC
    /\ meta.isValid
    /\ page = 1
    /\ shownPath = FileF
    /\ lblTopRight = <<>>
    /\ scene = <<PixmapItem(ImageOf(FileF))>>

Outcomes == {"show", "critical"}

\* C19: every open-file action with a chosen path reaches exactly one
\* outcome, the display of the image or the error alert, and has by then
\* closed the progress dialog and popped the override cursor it pushed, each
\* once; whenever no action is running the override-cursor depth is 0.
C19_BusyUndoneOneOutcome ==
    /\ [](/\ overrideCursor \in {0, 1}
          /\ overrideCursor = Count(alog, "setOverrideCursor") - Count(alog, "restoreOverrideCursor")
          /\ Count(alog, "setOverrideCursor") <= 1
          /\ apc = "idle" => overrideCursor = 0 /\ progress # "shown"
          /\ Count(alog, "show") + Count(alog, "critical") <= 1
          /\ \A o \in Outcomes : Has(alog, o) =>
                 /\ Count(alog, "progress.close") = 1
                 /\ Count(alog, "restoreOverrideCursor") = 1
                 /\ Before(alog, "progress.close", o)
                 /\ Before(alog, "restoreOverrideCursor", o)
                 /\ progress = "closed"
                 /\ overrideCursor = 0
          /\ (apc = "idle" /\ Has(alog, "setOverrideCursor")) =>
                 Count(alog, "show") + Count(alog, "critical") = 1)
    /\ (apc = "busy" ~> (Has(alog, "show") \/ Has(alog, "critical")))

C19_Witness ==
    /\ apc = "idle"
    /\ Has(alog, "critical")
    /\ alog[Len(alog)] = "critical"
    /\ Count(alog, "setOverrideCursor") = 1
    /\ Count(alog, "restoreOverrideCursor") = 1
    /\ overrideCursor = 0
    /\ progress = "closed"
    /\ ~alert

\* C20: in every reachable state each of the three overlay labels has its
\* visibility flag set exactly when the toggle button is checked, and the
\* caption of the button is the "(On)" one exactly when it is checked; the
\* program starts checked and visible, and the visibility of a label changes
\* only in a step that flips the button (a click on it or Ctrl+I): opens,
\* back, zoom and reset leave it alone.
C20_LabelsFollowToggle ==
    /\ [](/\ \A l \in Labels : lblVisible[l] <=> btnToggleInfo.checked
          /\ btnToggleInfo.text \in {CaptionOn, CaptionOff}
          /\ btnToggleInfo.text = CaptionOn <=> btnToggleInfo.checked
          /\ mainpc \in {"regJpeg", "regJpls", "regRle", "show"} => btnToggleInfo.checked)
    /\ [][(lblVisible' # lblVisible \/ btnToggleInfo' # btnToggleInfo) =>
              /\ apc = "idle" /\ apc' = "idle"
              /\ btnToggleInfo'.checked = ~btnToggleInfo.checked
              /\ UNCHANGED <<Shown, viewScale, alog, shownPath>>]_vars

C20_Witness ==
    /\ ~btnToggleInfo.checked
    /\ btnToggleInfo.text = CaptionOff
    /\ \A l \in Labels : ~lblVisible[l]
    /\ page = 0
    /\ shownPath = FileA
    /\ lblTopLeft # <<>>
    /\ alog = <<"getOpenFileName">>

\* C21: an open-file action whose dialog is cancelled (empty path) changes
\* nothing: neither loadDicomImage nor extractMetadata is called, no wait
\* cursor is set and no progress dialog shown, no alert is shown, and page,
\* scene and overlay labels (texts and visibility) and the view stay as
\* they are.  The step is the one that leaves the handler idle with the
\* dialog as the only thing it did.
C21_CancelChangesNothing ==
    /\ [](alog = <<"getOpenFileName">> /\ apc = "idle" =>
              /\ dpc = "idle" /\ mpc = "idle"
              /\ overrideCursor = 0
              /\ progress # "shown"
              /\ ~alert)
    /\ [][(apc = "idle" /\ apc' = "idle" /\ alog' # alog) =>
              /\ alog' = <<"getOpenFileName">>
              /\ UNCHANGED <<dvars, mvars>>
              /\ UNCHANGED <<path, img, meta, overrideCursor, progress, alert>>
              /\ UNCHANGED <<Shown, lblVisible, btnToggleInfo, viewScale, shownPath>>]_vars

C21_Witness ==
    /\ apc = "idle"
    /\ alog = <<"getOpenFileName">>
    /\ page = 1
    /\ shownPath = FileB
    /\ scene = <<PixmapItem(ImageOf(FileB))>>
    /\ lblTopLeft = TopLeftText(MetadataOf(FileB))
    /\ progress = "closed"
    /\ dlog # <<>>
    /\ dpath = FileB

(***************************************************************************)
(* Properties of main.                                                     *)
(***************************************************************************)
RegisteredOnce == [registered |-> TRUE, registers |-> 1, cleanups |-> 0]

ReleasedOnce == [registered |-> FALSE, registers |-> 1, cleanups |-> 1]

\* C13: each of the three decoders is registered exactly once before the
\* event loop starts, stays registered and untouched while the loop runs,
\* and is deregistered exactly once after the loop has ended; handlers, and
\* with them every call of loadDicomImage, run only while the loop runs, so
\* no decode runs with a decoder unregistered.
C13_CodecLifecycle ==
    /\ \A c \in Codecs : codecs[c].registers <= 1 /\ codecs[c].cleanups <= 1
    /\ mainpc \in {"show", "exec", "cleanJpeg"} => \A c \in Codecs : codecs[c] = RegisteredOnce
    /\ mainpc = "returned" => \A c \in Codecs : codecs[c] = ReleasedOnce
    /\ (\E c \in Codecs : codecs[c].cleanups > 0) => mainpc \in {"cleanJpls", "cleanRle", "returned"}
    /\ (apc # "idle" \/ dpc # "idle" \/ mpc # "idle") => mainpc = "exec"
    /\ dpc # "idle" => \A c \in Codecs : codecs[c].registered

C13_Witness ==
    /\ mainpc = "returned"
    /\ shownPath = FileA
    /\ Has(alog, "critical")
    /\ \A c \in Codecs : codecs[c] = ReleasedOnce


\* C22: at most one open-file action is in progress at any time: no action is
\* ever suspended under another one, and from the start of an open action to
\* its last step (processEvents included) every step is a step of that action
\* on the file it was started with: the page, the scene, the labels and their
\* visibility, the toggle button, the view scale and the position of main
\* change only in the step that ends the action.
C22_OneOpenActionAtATime ==
    /\ [](frames = <<>>)
    /\ [][apc # "idle" /\ apc' # "idle" =>
              /\ path' = path
              /\ UNCHANGED <<Shown, lblVisible, btnToggleInfo, viewScale, shownPath, mainpc>>]_vars
    /\ [][apc = "pump" =>
              /\ apc' = "load"
              /\ alog' = Append(alog, "processEvents")
              /\ UNCHANGED <<path, img, meta, overrideCursor, progress, alert>>
              /\ UNCHANGED <<dvars, mvars>>]_vars

C22_Witness ==
    /\ apc = "load"
    /\ Has(alog, "processEvents")
    /\ path = FileB
    /\ page = 1
    /\ shownPath = FileA
    /\ scene = <<PixmapItem(ImageOf(FileA))>>
    /\ ~btnToggleInfo.checked
    /\ viewScale # IdentityScale

\* the calls after entry j of the trail, up to entry k, are clicks of the two
\* toolbar zoom buttons, as many of the one as of the other
Balanced(j, k) ==
    /\ j < k
    /\ \A i \in (j + 1)..k : trail[i].op \in {"ZoomIn", "ZoomOut"}
    /\ Cardinality({i \in (j + 1)..k : trail[i].op = "ZoomIn"})
           = Cardinality({i \in (j + 1)..k : trail[i].op = "ZoomOut"})

\* two scales that are equal or next to each other among the doubles
Near(a, b) ==
    /\ a.base = b.base
    /\ \/ a.val = b.val
       \/ Up(a.val) = b.val
       \/ Up(b.val) = a.val

\* C23 as stated: as many 'Zoom (+)' as 'Zoom (-)' clicks, in any order, bring
\* the view scale back to exactly the value it had before them.
C23_ZoomButtonsExactInverses ==
    \A j, k \in 1..Len(trail) : Balanced(j, k) => trail[k].v = trail[j].v

\* C23: one 'Zoom (+)' click and one 'Zoom (-)' click, in either order, bring
\* the view scale back to the value it had before them or to a double next to
\* it: the two factors are inverses up to the rounding of the products.
C23_ZoomButtonsInverseUpToRounding ==
    /\ viewScale = trail[Len(trail)].v
    /\ \A j \in 1..(Len(trail) - 2) : Balanced(j, j + 2) => Near(trail[j].v, trail[j + 2].v)

C23_Witness ==
    /\ page = 1
    /\ Len(trail) = 3
    /\ trail[1].op = "open"
    /\ trail[2].op = "ZoomIn"
    /\ trail[3].op = "ZoomOut"
    /\ viewScale = trail[3].v
    /\ viewScale # trail[1].v
    /\ viewScale.val = Up(trail[1].v.val)
=============================================================================
